---- MODULE Spec2Model ----
(***************************************************************************)
(* English Accent Classifier: the presentation layer's trigger handler     *)
(* (gui.py), audio acquisition (audio_processor.py), the classifier        *)
(* (accent_classifier.py) and the error taxonomy (exceptions.py).          *)
(*                                                                         *)
(* The downloader (yt_dlp), the audio library (pydub), the model           *)
(* (speechbrain) and the filesystem are external: every outcome they can   *)
(* produce is a nondeterministic choice of the action that calls them.     *)
(***************************************************************************)
EXTENDS Integers, Sequences, FiniteSets, TLC

VARIABLES
    lastCleanup,  \* history: the last direct cleanup_temp_file call
    procs,        \* two instances of the tool: their pipelines' positions
    cfg,          \* Config._config
    cfgLoad,      \* history: how the Config was constructed
    lastSet,      \* history: the last Config.set call
    sets,         \* number of Config.set calls
    deps,         \* DEPENDENCIES_AVAILABLE of audio_processor
    depsCls,      \* DEPENDENCIES_AVAILABLE of accent_classifier
    ctorExc,      \* what AudioProcessor() / AccentClassifier() raised, if anything
    audio_format, \* AudioProcessor.audio_format (config youtube.audio_format)
    phase,        \* "start" | "running" | "failed": construction of the GUI
    model,        \* AccentClassifier.model: "none" | "loaded"
    loadCount,    \* number of EncoderClassifier.from_hparams calls
    inferCount,   \* number of model.classify_file calls
    fs,           \* the temp directory: path -> content
    urlText,      \* content of url_entry
    buttonState,  \* process_button state
    entryState,   \* url_entry state
    statusText,   \* status_label text
    resultText,   \* result_text content
    dialogs,      \* number of messagebox.showerror calls
    lastDialog,   \* message of the latest messagebox.showerror
    stack,        \* call stack of _process_video activations (innermost first)
    clicks,       \* number of _process_video activations so far
    lastAcq,      \* what the latest download_and_convert_to_wav call did
    lastCls,      \* what the latest classify_accent call did
    lastRun       \* how the latest finished _process_video ended

vars == <<lastCleanup, procs, cfg, cfgLoad, lastSet, sets,
          deps, depsCls, ctorExc, audio_format, phase, model, loadCount, inferCount, fs, urlText,
          buttonState, entryState, statusText, resultText, dialogs, lastDialog,
          stack, clicks, lastAcq, lastCls, lastRun>>

cfgVars == <<cfg, cfgLoad, lastSet, sets>>

unitVars == <<lastCleanup, procs>>

guiVars == <<deps, depsCls, ctorExc, audio_format, phase, model, loadCount, inferCount, fs,
             urlText, buttonState, entryState, statusText, resultText, dialogs,
             lastDialog, stack, clicks, lastAcq, lastCls, lastRun>>

----------------------------------------------------------------------------
(* Bounds *)

\* longest text typed into the URL entry
MaxUrlLen == 2
\* number of times the trigger is activated in one session
MaxClicks == 2

----------------------------------------------------------------------------
(* Strings *)

\* a whitespace character and a non-whitespace character
Chars == {" ", "x"}

Whitespace == {" "}

Texts == UNION {[1..n -> Chars] : n \in 0..MaxUrlLen}

RECURSIVE LStrip(_)
LStrip(s) ==
    IF s = <<>> THEN s
    ELSE IF Head(s) \in Whitespace THEN LStrip(Tail(s)) ELSE s

RECURSIVE RStrip(_)
RStrip(s) ==
    IF s = <<>> THEN s
    ELSE IF s[Len(s)] \in Whitespace THEN RStrip(SubSeq(s, 1, Len(s) - 1)) ELSE s

\* str.strip() without the strip: a handler that forgets to strip
StripNot(s) == s

\* str.strip()
Strip(s) == RStrip(LStrip(s))

----------------------------------------------------------------------------
(* exceptions.py: the error taxonomy *)

NoExc == [kind |-> "none", msg |-> <<>>]

Exc(k, m) == [kind |-> k, msg |-> m]

\* the classes of exceptions.py, and the raw ones of the collaborators
ExcKinds == {"Exception", "OSError", "RuntimeError", "AccentClassifierError",
             "DependencyError", "AudioProcessingError", "DownloadError",
             "ClassificationError"}

\* the base class each class is declared with
Base(k) ==
    CASE k = "AccentClassifierError" -> "Exception"
      [] k = "DependencyError"       -> "AccentClassifierError"
      [] k = "AudioProcessingError"  -> "AccentClassifierError"
      [] k = "DownloadError"         -> "AccentClassifierError"
      [] k = "ClassificationError"   -> "AccentClassifierError"
      [] k = "OSError"               -> "Exception"
      [] k = "RuntimeError"          -> "Exception"
      [] OTHER                       -> "BaseException"

\* isinstance(e, cls) for an exception of class k
RECURSIVE IsInstance(_, _)
IsInstance(k, cls) ==
    IF k = cls THEN TRUE
    ELSE IF k \in ExcKinds THEN IsInstance(Base(k), cls) ELSE FALSE

DepMsg == <<"Required dependencies are not available.">>

----------------------------------------------------------------------------
(* Outcomes of a call: a returned value or a raised exception *)

NoPath == [dir |-> "none", pid |-> "none", ext |-> "none"]

Return(p) == [type |-> "return", value |-> p, exc |-> NoExc]

Raise(k, m) == [type |-> "raise", value |-> NoPath, exc |-> Exc(k, m)]

----------------------------------------------------------------------------
(* The temp directory *)

\* os.getpid() of the running process
getpid == "pid1"

\* os.getpid() of a second instance of the tool running at the same time
otherpid == "pid2"

Pids == {getpid, otherpid}

\* AudioProcessor.temp_dir
temp_dir == "tmp"

\* values of youtube.audio_format
Formats == {"mp3", "wav"}

Paths == [dir : {temp_dir}, pid : {getpid}, ext : Formats \cup {"wav"}]

\* the temp files of both instances
AllPaths == [dir : {temp_dir}, pid : Pids, ext : Formats \cup {"wav"}]

\* a base name that leaves the process id out
TempBaseShared(pid) == [dir |-> temp_dir, pid |-> getpid]

\* temp_base = os.path.join(self.temp_dir, f"temp_audio_{os.getpid()}")
TempBase(pid) == [dir |-> temp_dir, pid |-> pid]

\* the file name a path stands for, as the tokens the f-strings put together
PathName(p) == <<p.dir, "/", "temp_audio_", p.pid, ".", p.ext>>

\* "partial" is what an export that failed midway leaves behind
Contents == {"absent", "empty", "data", "partial"}

\* temp_audio_file = f"{temp_base}.{self.audio_format}"
TempAudioFile(pid, fmt) ==
    [dir |-> TempBase(pid).dir, pid |-> TempBase(pid).pid, ext |-> fmt]

\* temp_wav = f"{temp_base}.wav"
TempWav(pid) ==
    [dir |-> TempBase(pid).dir, pid |-> TempBase(pid).pid, ext |-> "wav"]

\* os.path.exists
Exists(f, p) == p \in DOMAIN f /\ f[p] # "absent"

\* os.path.getsize(p) == 0
IsEmpty(f, p) == f[p] = "empty"

----------------------------------------------------------------------------
(* audio_processor.py *)

\* what the collaborators do during one download_and_convert_to_wav call
AcqEnvs == [dlRaises   : BOOLEAN,
            dlProduces : {"none", "empty", "data"},
            decode     : {"ok", "raise"},
            export     : {"ok", "raise_nofile", "raise_partial"},
            rm         : {"ok", "oserror", "gone"}]

\* ydl.download([youtube_url]): the file the downloader leaves at the
\* intermediate path; "none" leaves whatever was there
Downloaded(pid, f, fmt, e) ==
    IF e.dlProduces = "none" THEN f
    ELSE [f EXCEPT ![TempAudioFile(pid, fmt)] = e.dlProduces]

\* the body of the try statement
TryBody(pid, f, fmt, url, e) ==
    LET taf == TempAudioFile(pid, fmt)
        f1  == Downloaded(pid, f, fmt, e)
        Out(g, r, dec, ex, n) ==
            [fs |-> g, res |-> r, dlCalls |-> <<url>>, decoded |-> dec,
             exported |-> ex, exports |-> n]
    IN  IF e.dlRaises
            THEN Out(f1, Raise("Exception", <<"yt_dlp">>), "skipped", "skipped", 0)
        ELSE IF ~Exists(f1, taf)
            THEN Out(f1, Raise("DownloadError",
                               <<"Failed to download audio from YouTube URL.">>),
                     "skipped", "skipped", 0)
        ELSE IF IsEmpty(f1, taf)
            THEN Out(f1, Raise("DownloadError",
                               <<"Downloaded audio file is empty.">>),
                     "skipped", "skipped", 0)
        ELSE IF e.decode = "raise"
            THEN Out(f1, Raise("Exception", <<"decode">>), "raise", "skipped", 0)
        ELSE IF e.export = "raise_nofile"
            THEN Out(f1, Raise("OSError", <<"export">>), "ok", "raise_nofile", 1)
        ELSE IF e.export = "raise_partial"
            THEN Out([f1 EXCEPT ![TempWav(pid)] = "partial"],
                     Raise("OSError", <<"export">>), "ok", "raise_partial", 1)
        ELSE Out([f1 EXCEPT ![TempWav(pid)] = "data"], Return(TempWav(pid)), "ok", "ok", 1)

\* except Exception as e: raise AudioProcessingError(...)
ExceptClause(r) ==
    IF r.type = "raise" /\ IsInstance(r.exc.kind, "Exception")
    THEN Raise("AudioProcessingError", <<"Audio processing failed: ">> \o r.exc.msg)
    ELSE r

\* a finally clause that does not delete the intermediate file
FinallyClauseKeepsFile(pid, f, fmt, r, e) ==
    [fs |-> f, res |-> r, removed |-> "skipped"]

\* finally: if os.path.exists(temp_audio_file): os.remove(temp_audio_file)
\* os.remove may fail and leave the file ("oserror"), or find it already
\* gone ("gone"); either way its OSError replaces the pending outcome
FinallyClause(pid, f, fmt, r, e) ==
    LET taf == TempAudioFile(pid, fmt)
    IN  IF ~Exists(f, taf) THEN [fs |-> f, res |-> r, removed |-> "skipped"]
        ELSE IF e.rm = "ok"
            THEN [fs |-> [f EXCEPT ![taf] = "absent"], res |-> r, removed |-> "ok"]
        ELSE IF e.rm = "gone"
            THEN [fs |-> [f EXCEPT ![taf] = "absent"],
                  res |-> Raise("OSError", <<"remove">>), removed |-> "gone"]
        ELSE [fs |-> f, res |-> Raise("OSError", <<"remove">>), removed |-> "oserror"]

\* AudioProcessor.download_and_convert_to_wav
download_and_convert_to_wav(pid, d, f, fmt, url, e) ==
    IF ~d
    THEN [fs |-> f, res |-> Raise("DependencyError", DepMsg), dlCalls |-> <<>>,
          decoded |-> "skipped", exported |-> "skipped", exports |-> 0,
          removed |-> "skipped"]
    ELSE LET b   == TryBody(pid, f, fmt, url, e)
             x   == ExceptClause(b.res)
             fin == FinallyClause(pid, b.fs, fmt, x, e)
         IN  [fs |-> fin.fs, res |-> fin.res, dlCalls |-> b.dlCalls,
              decoded |-> b.decoded, exported |-> b.exported,
              exports |-> b.exports, removed |-> fin.removed]

\* a cleanup_temp_file without the try statement
cleanup_temp_file_unguarded(f, p, rm) ==
    IF ~Exists(f, p) THEN [fs |-> f, exc |-> NoExc]
    ELSE IF rm = "oserror" THEN [fs |-> f, exc |-> Exc("OSError", <<"remove">>)]
    ELSE IF rm = "gone"
        THEN [fs |-> [f EXCEPT ![p] = "absent"], exc |-> Exc("OSError", <<"remove">>)]
    ELSE [fs |-> [f EXCEPT ![p] = "absent"], exc |-> NoExc]

\* AudioProcessor.cleanup_temp_file: the file is removed if it exists; the
\* OSError of os.remove (the delete failed, "oserror", or the file was
\* removed by someone else after the check, "gone") is swallowed
cleanup_temp_file(f, p, rm) ==
    IF ~Exists(f, p) THEN [fs |-> f, exc |-> NoExc]
    ELSE IF rm = "oserror" THEN [fs |-> f, exc |-> NoExc]
    ELSE [fs |-> [f EXCEPT ![p] = "absent"], exc |-> NoExc]

\* AudioProcessor.__init__
AudioProcessorInit(d) ==
    IF ~d THEN Exc("DependencyError", DepMsg) ELSE NoExc

----------------------------------------------------------------------------
(* config.py *)

\* most segments in a dot-path given to Config.get / Config.set
MaxSegments == 2
\* number of Config.set calls on one Config
MaxSets == 1

\* configuration values: a mapping (tag "dict", d its items) or anything
\* else (tag "leaf": a string, a number, None, a list), named by v
Leaf(v) == [tag |-> "leaf", v |-> v, d |-> <<>>]

Dict(d) == [tag |-> "dict", v |-> "", d |-> d]

\* a dict literal: the set of its <<key, value>> items
Obj(items) ==
    [k \in {it[1] : it \in items} |-> (CHOOSE it \in items : it[1] = k)[2]]

\* a string is a sequence of tokens: key names and the separator "."
RECURSIVE SplitFrom(_, _)
SplitFrom(str, cur) ==
    IF str = <<>> THEN <<cur>>
    ELSE IF Head(str) = "." THEN <<cur>> \o SplitFrom(Tail(str), <<>>)
    ELSE SplitFrom(Tail(str), cur \o <<Head(str)>>)

\* key.split('.')
Split(str) == SplitFrom(str, <<>>)

\* '.'.join(keys)
RECURSIVE Join(_)
Join(keys) ==
    IF Len(keys) = 1 THEN keys[1]
    ELSE keys[1] \o <<".">> \o Join(Tail(keys))

\* the key names dot-paths are built from; <<>> is the empty name
PathKeys == {<<"audio">>, <<"sample_rate">>, <<>>}

PathStrings ==
    {Join(ks) : ks \in UNION {[1..n -> PathKeys] : n \in 1..MaxSegments}}

\* Config._get_default_config
DefaultConfig ==
    Obj({<<<<"app">>, Dict(Obj({
             <<<<"name">>, Leaf("English Accent Classifier")>>,
             <<<<"version">>, Leaf("1.0.0")>>,
             <<<<"description">>, Leaf("A tool for identifying English accents from YouTube videos")>>}))>>,
         <<<<"audio">>, Dict(Obj({
             <<<<"temp_dir">>, Leaf("None")>>,
             <<<<"sample_rate">>, Leaf("16000")>>,
             <<<<"channels">>, Leaf("1")>>}))>>,
         <<<<"model">>, Dict(Obj({
             <<<<"path">>, Leaf("Jzuluaga/accent-id-commonaccent_ecapa")>>,
             <<<<"cache_dir">>, Leaf("None")>>}))>>,
         <<<<"youtube">>, Dict(Obj({
             <<<<"format">>, Leaf("bestaudio/best")>>,
             <<<<"audio_format">>, Leaf("mp3")>>,
             <<<<"audio_quality">>, Leaf("192")>>}))>>,
         <<<<"logging">>, Dict(Obj({
             <<<<"level">>, Leaf("INFO")>>,
             <<<<"format">>, Leaf("%(asctime)s - %(name)s - %(levelname)s - %(message)s")>>,
             <<<<"file">>, Leaf("None")>>}))>>,
         <<<<"gui">>, Dict(Obj({
             <<<<"title">>, Leaf("English Accent Classifier")>>,
             <<<<"width">>, Leaf("600")>>,
             <<<<"height">>, Leaf("500")>>,
             <<<<"font_family">>, Leaf("Arial")>>,
             <<<<"font_size">>, Leaf("10")>>}))>>})

\* value[k]: KeyError when a mapping lacks k, TypeError when value is no
\* mapping (a str, int, list or None subscripted with a str)
RECURSIVE Walk(_, _)
Walk(node, keys) ==
    IF keys = <<>> THEN [err |-> "none", value |-> node]
    ELSE IF node.tag # "dict" THEN [err |-> "TypeError", value |-> node]
    ELSE IF Head(keys) \notin DOMAIN node.d THEN [err |-> "KeyError", value |-> node]
    ELSE Walk(node.d[Head(keys)], Tail(keys))

CfgReturn(v) == [type |-> "return", value |-> v, exc |-> NoExc]

CfgRaise(k) == [type |-> "raise", value |-> Leaf("None"), exc |-> Exc(k, <<>>)]

\* a get whose except clause names KeyError only
ConfigGetKeyErrorOnly(c, key, default) ==
    LET w == Walk(Dict(c), Split(key))
    IN  IF w.err = "none" THEN CfgReturn(w.value)
        ELSE IF w.err = "KeyError" THEN CfgReturn(default)
        ELSE CfgRaise(w.err)

\* Config.get
ConfigGet(c, key, default) ==
    LET w == Walk(Dict(c), Split(key))
    IN  IF w.err = "none" THEN CfgReturn(w.value)
        ELSE IF w.err \in {"KeyError", "TypeError"} THEN CfgReturn(default)
        ELSE CfgRaise(w.err)

Put(d, k, v) == [x \in DOMAIN d \cup {k} |-> IF x = k THEN v ELSE d[x]]

\* the loop and the final assignment of Config.set, on the mapping d
RECURSIVE SetKeys(_, _, _)
SetKeys(d, keys, value) ==
    IF Len(keys) = 1 THEN Put(d, keys[1], value)
    ELSE LET k     == Head(keys)
             child == IF k \notin DOMAIN d \/ d[k].tag # "dict"
                      THEN Obj({}) ELSE d[k].d
         IN  Put(d, k, Dict(SetKeys(child, Tail(keys), value)))

\* a set that creates missing intermediate mappings but does not replace an
\* intermediate value that is no mapping: the assignment fails
RECURSIVE SetKeysKeep(_, _, _)
SetKeysKeep(d, keys, value) ==
    IF Len(keys) = 1 THEN Put(d, keys[1], value)
    ELSE LET k == Head(keys)
         IN  IF k \in DOMAIN d /\ d[k].tag # "dict" THEN d
             ELSE Put(d, k, Dict(SetKeysKeep(IF k \in DOMAIN d THEN d[k].d ELSE Obj({}),
                                             Tail(keys), value)))

ConfigSetKeep(c, key, value) == SetKeysKeep(c, Split(key), value)

\* Config.set
ConfigSet(c, key, value) == SetKeys(c, Split(key), value)

\* result = base.copy(); result.update(override)
MergeConfigsShallow(base, override) ==
    [k \in DOMAIN base \cup DOMAIN override |->
        IF k \in DOMAIN override THEN override[k] ELSE base[k]]

\* Config._merge_configs
RECURSIVE MergeConfigs(_, _)
MergeConfigs(base, override) ==
    [k \in DOMAIN base \cup DOMAIN override |->
        IF k \notin DOMAIN override THEN base[k]
        ELSE IF k \in DOMAIN base /\ base[k].tag = "dict" /\ override[k].tag = "dict"
            THEN Dict(MergeConfigs(base[k].d, override[k].d))
        ELSE override[k]]

\* the config file: missing, unreadable (open raises), invalid (safe_load
\* raises), or a document with the given top-level value
File(state, doc) == [state |-> state, doc |-> doc]

\* the file of test_config_file_loading
TestFileDoc ==
    Dict(Obj({<<<<"app">>, Dict(Obj({<<<<"name">>, Leaf("Test App")>>,
                                     <<<<"version">>, Leaf("2.0.0")>>}))>>,
              <<<<"audio">>, Dict(Obj({<<<<"temp_dir">>, Leaf("/tmp/test")>>}))>>}))

Docs == {Leaf("None"), Leaf("list"), Leaf("text"), TestFileDoc,
         Dict(Obj({<<<<"audio">>, Leaf("5")>>})),
         Dict(Obj({<<<<"audio">>, Dict(Obj({<<<<"sample_rate">>,
                       Dict(Obj({<<<<"hz">>, Leaf("8000")>>}))>>}))>>,
                   <<<<"extra">>, Leaf("1")>>}))}

Files == {File("missing", Leaf("None")), File("unreadable", Leaf("None")),
          File("invalid", Leaf("None"))} \cup {File("doc", d) : d \in Docs}

\* bool(value) is False
Falsy(node) ==
    \/ node.tag = "leaf" /\ node.v \in {"None", "", "0", "False", "[]"}
    \/ node.tag = "dict" /\ DOMAIN node.d = {}

\* a _load_config whose except clause names yaml.YAMLError only
LoadConfigYamlErrorsOnly(yaml, file) ==
    IF ~yaml THEN [config |-> DefaultConfig, exc |-> NoExc]
    ELSE IF file.state = "missing" THEN [config |-> DefaultConfig, exc |-> NoExc]
    ELSE IF file.state = "unreadable"
        THEN [config |-> Obj({}), exc |-> Exc("OSError", <<"open">>)]
    ELSE IF file.state = "invalid" THEN [config |-> DefaultConfig, exc |-> NoExc]
    ELSE LET loaded == IF Falsy(file.doc) THEN Dict(Obj({})) ELSE file.doc
         IN  IF loaded.tag # "dict"
             THEN [config |-> Obj({}), exc |-> Exc("AttributeError", <<"items">>)]
             ELSE [config |-> MergeConfigs(DefaultConfig, loaded.d), exc |-> NoExc]

\* Config._load_config (self._config is {} until it assigns it)
LoadConfig(yaml, file) ==
    IF ~yaml THEN [config |-> DefaultConfig, exc |-> NoExc]
    ELSE IF file.state = "missing" THEN [config |-> DefaultConfig, exc |-> NoExc]
    ELSE IF file.state \in {"unreadable", "invalid"}
        THEN [config |-> DefaultConfig, exc |-> NoExc]
    ELSE LET loaded == IF Falsy(file.doc) THEN Dict(Obj({})) ELSE file.doc
         IN  IF loaded.tag # "dict"
             THEN [config |-> DefaultConfig, exc |-> NoExc]
             ELSE [config |-> MergeConfigs(DefaultConfig, loaded.d), exc |-> NoExc]

NoLoad == [done |-> FALSE, yaml |-> FALSE, file |-> File("missing", Leaf("None")),
           exc |-> NoExc]

NoSet == [done |-> FALSE, key |-> <<>>, value |-> Leaf("None"), before |-> Obj({})]

\* values given to Config.set
SetValues == {Leaf("44100"), Dict(Obj({}))}

----------------------------------------------------------------------------
(* accent_classifier.py *)

\* the label encoder's labels, in its order
Labels == <<"us", "england", "indian">>

\* probabilities the softmax of the model's scores can give, in units of
\* 1/100000 (each vector sums to 1)
ProbVectors == {<<50000, 30000, 20000>>, <<20000, 40000, 40000>>,
                <<0, 0, 100000>>, <<33334, 33333, 33333>>,
                <<33335, 33335, 33330>>}

\* what the model does during one classify_accent call
ClsEnvs == [raises : BOOLEAN, probs : ProbVectors]

NoReport == [header |-> "", lines |-> <<>>]

\* f"{probability:>6.2f}" of probability = p * 100: the percentage rounded to
\* two decimals, in hundredths of a percent
Percent2f(p) == (p + 5) \div 10

\* a report loop that stops one label short
ReportShort(probs) ==
    [header |-> "Accent probabilities:",
     lines  |-> [i \in 1..(Len(Labels) - 1) |->
                    [label |-> Labels[i], pct |-> Percent2f(probs[i])]]]

\* result = "Accent probabilities:\n\n" followed by one line per label
Report(probs) ==
    [header |-> "Accent probabilities:",
     lines  |-> [i \in 1..Len(Labels) |->
                    [label |-> Labels[i], pct |-> Percent2f(probs[i])]]]

\* argmax over the wrong dimension of the 1 x n tensor: always the first index
ArgMaxDim0(probs) == 1

\* an argmax that keeps the last index holding the maximum
ArgMaxLast(probs) ==
    CHOOSE i \in 1..Len(probs) :
        /\ \A j \in 1..Len(probs) : probs[j] <= probs[i]
        /\ \A j \in (i + 1)..Len(probs) : probs[j] < probs[i]

\* torch.argmax: the first index holding the maximum
ArgMax(probs) ==
    CHOOSE i \in 1..Len(probs) :
        /\ \A j \in 1..Len(probs) : probs[j] <= probs[i]
        /\ \A j \in 1..(i - 1) : probs[j] < probs[i]

ClsOut(k, m, inferred, report, best) ==
    [exc |-> IF k = "none" THEN NoExc ELSE Exc(k, m), inferred |-> inferred,
     report |-> report, best |-> best]

\* classify_accent without the check that the file exists
classify_accent_unchecked(d, m, f, path, e) ==
    IF ~d \/ m = "none"
        THEN ClsOut("DependencyError", DepMsg, FALSE, NoReport, "")
    ELSE IF e.raises \/ ~Exists(f, path)
        THEN ClsOut("ClassificationError", <<"Accent classification failed: ", "model">>,
                    TRUE, NoReport, "")
    ELSE ClsOut("none", <<>>, TRUE, Report(e.probs), Labels[ArgMax(e.probs)])

\* AccentClassifier.classify_accent
classify_accent(d, m, f, path, e) ==
    IF ~d \/ m = "none"
        THEN ClsOut("DependencyError", DepMsg, FALSE, NoReport, "")
    ELSE IF ~Exists(f, path)
        THEN ClsOut("ClassificationError", <<"Audio file not found: ", path.ext>>,
                    FALSE, NoReport, "")
    ELSE IF e.raises
        THEN ClsOut("ClassificationError", <<"Accent classification failed: ", "model">>,
                    TRUE, NoReport, "")
    ELSE ClsOut("none", <<>>, TRUE, Report(e.probs), Labels[ArgMax(e.probs)])

\* AccentClassifier._load_model
load_model(loadOk) ==
    IF loadOk THEN [exc |-> NoExc, model |-> "loaded", loads |-> 1]
    ELSE [exc |-> Exc("ClassificationError",
                      <<"Failed to load accent classification model: ", "hub">>),
          model |-> "none", loads |-> 1]

\* an __init__ that loads the model without looking at the dependencies
AccentClassifierInitUnchecked(d, loadOk) == load_model(loadOk)

\* AccentClassifier.__init__
AccentClassifierInit(d, loadOk) ==
    IF ~d THEN [exc |-> Exc("DependencyError", DepMsg), model |-> "none", loads |-> 0]
    ELSE load_model(loadOk)

----------------------------------------------------------------------------
(* gui.py *)

ValidationMsg == <<"Please enter a YouTube URL.">>

ReadyStatus == <<"Ready to analyze accents...">>

NoAcq == [called |-> FALSE, url |-> <<>>, pre |-> "absent", dlRaised |-> FALSE,
          dlProduced |-> "none", res |-> Return(NoPath), dlCalls |-> <<>>,
          decoded |-> "skipped", exported |-> "skipped", exports |-> 0,
          removed |-> "skipped", interAfter |-> "absent", wavAfter |-> "absent"]

NoCls == [called |-> FALSE, path |-> NoPath, existed |-> FALSE, exc |-> NoExc,
          inferred |-> FALSE, best |-> "", report |-> NoReport, probs |-> <<>>,
          loaded |-> FALSE, depsOk |-> FALSE]

NoRun == [done |-> FALSE, exc |-> NoExc, dialogs |-> 0, dialog |-> <<>>,
          status |-> <<>>, result0 |-> NoReport, acq |-> 0, cls |-> 0]

\* an activation of _process_video; dialogs0 is the number of dialogs shown
\* and result0 the text of the results area before it started, acq and cls
\* count its calls of download_and_convert_to_wav and classify_accent
Frame(url, n, shown) ==
    [pc |-> "update", url |-> url, wav_path |-> NoPath, exc |-> NoExc,
     dialogs0 |-> n, result0 |-> shown, acq |-> 0, cls |-> 0]

\* a handler that goes on to the classifier whatever the acquisition did
AfterAcquireAlways(top, res) ==
    [top EXCEPT !.pc = "classify", !.wav_path = res.value, !.acq = top.acq + 1]

\* wav_path = download_and_convert_to_wav(url): the inner try is entered when
\* it returns, the except clauses when it raises
AfterAcquire(top, res) ==
    IF res.type = "return"
    THEN [top EXCEPT !.pc = "classify", !.wav_path = res.value, !.acq = top.acq + 1]
    ELSE [top EXCEPT !.pc = "handle", !.exc = res.exc, !.acq = top.acq + 1]

\* a handler that rewrites the results area whatever classify_accent did
ShowResultsAlways(shown, c) == c.report

\* result_text.delete / insert: reached only when classify_accent returned
ShowResults(shown, c) == IF c.exc = NoExc THEN c.report ELSE shown

\* a _set_processing_state that leaves the controls enabled
SetProcessingStateNormal(processing) ==
    [button |-> "normal", entry |-> "normal"]

\* AccentClassifierGUI._set_processing_state
SetProcessingState(processing) ==
    LET state == IF processing THEN "disabled" ELSE "normal"
    IN  [button |-> state, entry |-> state]

\* except clauses that handle the component's own errors only
ExceptHandlersOwnOnly(exc, status) ==
    IF exc # NoExc /\ IsInstance(exc.kind, "AccentClassifierError")
        THEN [shown |-> TRUE, dialog |-> exc.msg, status |-> <<"Processing failed">>]
    ELSE [shown |-> FALSE, dialog |-> <<>>, status |-> status]

\* the except clauses of _process_video: the dialog and the status they set
ExceptHandlers(exc, status) ==
    IF exc = NoExc THEN [shown |-> FALSE, dialog |-> <<>>, status |-> status]
    ELSE IF IsInstance(exc.kind, "AccentClassifierError")
        THEN [shown |-> TRUE, dialog |-> exc.msg, status |-> <<"Processing failed">>]
    ELSE [shown |-> TRUE, dialog |-> <<"An unexpected error occurred: ">> \o exc.msg,
          status |-> <<"Unexpected error">>]

\* a handler that re-enables the controls only when nothing was raised
FinallyStateOnSuccess(cur, exc) ==
    IF exc = NoExc THEN SetProcessingState(FALSE) ELSE cur

\* finally: self._set_processing_state(False)
FinallyState(cur, exc) == SetProcessingState(FALSE)

\* the loop that dispatches UI events is running: mainloop between handlers,
\* or root.update() inside _process_video
Dispatching == IF stack = <<>> THEN TRUE ELSE Head(stack).pc = "update"

NoCleanup == [called |-> FALSE, path |-> NoPath, rm |-> "ok", before |-> "absent",
              exc |-> NoExc, repeat |-> FALSE, changed |-> FALSE]

\* an instance of the tool between submissions; touched is the set of
\* files its pipeline has created, read, overwritten or deleted
IdleProc(fmt) ==
    [pc |-> "idle", fmt |-> fmt, res |-> Return(NoPath), wav_path |-> NoPath,
     touched |-> {}]

\* nothing is called directly and no second instance runs
NoUnits ==
    /\ lastCleanup = NoCleanup
    /\ procs = [p \in Pids |-> IdleProc("mp3")]

----------------------------------------------------------------------------
(* Initial state: the process has started, nothing is constructed yet *)

\* a config file that sets youtube.audio_format
FormatFile(fmt) ==
    File("doc", Dict(Obj({<<<<"youtube">>,
                           Dict(Obj({<<<<"audio_format">>, Leaf(fmt)>>}))>>})))

\* get_config(): the global Config, constructed once from the config file;
\* AudioProcessor.__init__ reads youtube.audio_format from it
ConfigLoaded ==
    /\ \E fmt \in Formats :
        /\ cfgLoad = [done |-> TRUE, yaml |-> TRUE, file |-> FormatFile(fmt),
                      exc |-> NoExc]
        /\ cfg = LoadConfig(TRUE, FormatFile(fmt)).config
    /\ lastSet = NoSet
    /\ sets = 0
    /\ audio_format =
            ConfigGet(cfg, <<"youtube", ".", "audio_format">>, Leaf("None")).value.v

Init ==
    /\ NoUnits
    /\ ConfigLoaded
    /\ deps \in BOOLEAN
    /\ depsCls \in BOOLEAN
    /\ ctorExc = NoExc
    /\ phase = "start"
    /\ model = "none"
    /\ loadCount = 0
    /\ inferCount = 0
    /\ fs = [p \in Paths |-> "absent"]
    /\ urlText = <<>>
    /\ buttonState = "none"
    /\ entryState = "none"
    /\ statusText = <<>>
    /\ resultText = NoReport
    /\ dialogs = 0
    /\ lastDialog = <<>>
    /\ stack = <<>>
    /\ clicks = 0
    /\ lastAcq = NoAcq
    /\ lastCls = NoCls
    /\ lastRun = NoRun

\* run_gui: AccentClassifierGUI() (AudioProcessor(), then AccentClassifier(),
\* any exception re-raised as RuntimeError) and, when it succeeds, create_gui
Construct ==
    /\ phase = "start"
    /\ \E loadOk \in BOOLEAN :
        LET ap == AudioProcessorInit(deps)
            ac == IF ap = NoExc THEN AccentClassifierInit(depsCls, loadOk)
                  ELSE [exc |-> ap, model |-> "none", loads |-> 0]
        IN  /\ model' = ac.model
            /\ ctorExc' = ac.exc
            /\ loadCount' = loadCount + ac.loads
            /\ IF ac.exc = NoExc
               THEN /\ phase' = "running"
                    /\ buttonState' = "normal"
                    /\ entryState' = "normal"
                    /\ statusText' = ReadyStatus
               ELSE /\ phase' = "failed"
                    /\ UNCHANGED <<buttonState, entryState, statusText>>
    /\ UNCHANGED <<unitVars, cfgVars, depsCls, deps, audio_format, inferCount, fs, urlText, resultText, dialogs,
                   lastDialog, stack, clicks, lastAcq, lastCls, lastRun>>

\* The user leaves `text` in the URL entry (when it is enabled) and presses
\* the button: _process_video up to root.update()
ProcessVideoEnter(text) ==
    /\ phase = "running"
    /\ Dispatching
    /\ buttonState = "normal"
    /\ clicks < MaxClicks
    /\ clicks' = clicks + 1
    /\ urlText' = IF entryState = "normal" THEN text ELSE urlText
    /\ LET url == Strip(urlText')
       IN  IF url = <<>>
           THEN /\ dialogs' = dialogs + 1
                /\ lastDialog' = ValidationMsg
                /\ UNCHANGED <<buttonState, entryState, statusText, stack,
                               lastAcq, lastCls, lastRun>>
           ELSE /\ buttonState' = SetProcessingState(TRUE).button
                /\ entryState' = SetProcessingState(TRUE).entry
                /\ statusText' = <<"Downloading and processing audio...">>
                /\ stack' = <<Frame(url, dialogs, resultText)>> \o stack
                /\ lastAcq' = NoAcq
                /\ lastCls' = NoCls
                /\ lastRun' = NoRun
                /\ UNCHANGED <<dialogs, lastDialog>>
    /\ UNCHANGED <<unitVars, cfgVars, depsCls, ctorExc, deps, audio_format, phase, model, loadCount, inferCount, fs,
                   resultText>>

\* root.update() returns
PumpEvents ==
    /\ stack # <<>>
    /\ Head(stack).pc = "update"
    /\ stack' = <<[Head(stack) EXCEPT !.pc = "acquire"]>> \o Tail(stack)
    /\ UNCHANGED <<unitVars, cfgVars, depsCls, ctorExc, deps, audio_format, phase, model, loadCount, inferCount, fs,
                   urlText, buttonState, entryState, statusText, resultText,
                   dialogs, lastDialog, clicks, lastAcq, lastCls, lastRun>>

\* wav_path = self.audio_processor.download_and_convert_to_wav(url)
Acquire(e) ==
    /\ stack # <<>>
    /\ Head(stack).pc = "acquire"
    /\ LET top == Head(stack)
           r   == download_and_convert_to_wav(getpid, deps, fs, audio_format, top.url, e)
       IN  /\ fs' = r.fs
           /\ stack' = <<AfterAcquire(top, r.res)>> \o Tail(stack)
           /\ lastAcq' = [called |-> TRUE, url |-> top.url,
                          pre |-> fs[TempAudioFile(getpid, audio_format)],
                          dlRaised |-> e.dlRaises, dlProduced |-> e.dlProduces,
                          res |-> r.res, dlCalls |-> r.dlCalls,
                          decoded |-> r.decoded, exported |-> r.exported,
                          exports |-> r.exports, removed |-> r.removed,
                          interAfter |-> r.fs[TempAudioFile(getpid, audio_format)],
                          wavAfter |-> r.fs[TempWav(getpid)]]
    /\ UNCHANGED <<unitVars, cfgVars, depsCls, ctorExc, deps, audio_format, phase, model, loadCount, inferCount,
                   urlText, buttonState, entryState, statusText, resultText,
                   dialogs, lastDialog, clicks, lastCls, lastRun>>

\* the inner try statement: classify_accent(wav_path), the results shown on
\* success, and cleanup_temp_file(wav_path) in its finally clause
Classify(e, rm) ==
    /\ stack # <<>>
    /\ Head(stack).pc = "classify"
    /\ LET top == Head(stack)
           c   == classify_accent(depsCls, model, fs, top.wav_path, e)
           cl  == cleanup_temp_file(fs, top.wav_path, rm)
           exc == IF cl.exc # NoExc THEN cl.exc ELSE c.exc
       IN  /\ inferCount' = inferCount + (IF c.inferred THEN 1 ELSE 0)
           /\ resultText' = ShowResults(resultText, c)
           /\ statusText' = IF c.exc = NoExc
                            THEN <<"Most probable accent: ", c.best>>
                            ELSE statusText
           /\ fs' = cl.fs
           /\ stack' = <<[top EXCEPT !.pc = "handle", !.exc = exc,
                                      !.cls = top.cls + 1]>> \o Tail(stack)
           /\ lastCls' = [called |-> TRUE, path |-> top.wav_path,
                          existed |-> Exists(fs, top.wav_path), exc |-> c.exc,
                          inferred |-> c.inferred, best |-> c.best,
                          report |-> c.report,
                          probs |-> IF c.exc = NoExc THEN e.probs ELSE <<>>,
                          loaded |-> model = "loaded", depsOk |-> depsCls]
    /\ UNCHANGED <<unitVars, cfgVars, depsCls, ctorExc, deps, audio_format, phase, model, loadCount, urlText,
                   buttonState, entryState, dialogs, lastDialog, clicks, lastAcq,
                   lastRun>>

\* the except clauses and the finally clause of _process_video; it returns
Finish ==
    /\ stack # <<>>
    /\ Head(stack).pc = "handle"
    /\ LET top == Head(stack)
           h   == ExceptHandlers(top.exc, statusText)
           cur == [button |-> buttonState, entry |-> entryState]
           fin == FinallyState(cur, top.exc)
       IN  /\ dialogs' = dialogs + (IF h.shown THEN 1 ELSE 0)
           /\ lastDialog' = IF h.shown THEN h.dialog ELSE lastDialog
           /\ statusText' = h.status
           /\ buttonState' = fin.button
           /\ entryState' = fin.entry
           /\ lastRun' = [done |-> TRUE, exc |-> top.exc,
                          dialogs |-> dialogs' - top.dialogs0,
                          dialog |-> h.dialog, status |-> h.status,
                          result0 |-> top.result0, acq |-> top.acq, cls |-> top.cls]
    /\ stack' = Tail(stack)
    /\ UNCHANGED <<unitVars, cfgVars, depsCls, ctorExc, deps, audio_format, phase, model, loadCount, inferCount, fs,
                   urlText, resultText, clicks, lastAcq, lastCls>>

Next ==
    \/ Construct
    \/ \E text \in Texts : ProcessVideoEnter(text)
    \/ PumpEvents
    \/ \E e \in AcqEnvs : Acquire(e)
    \/ \E e \in ClsEnvs, rm \in {"ok", "oserror", "gone"} : Classify(e, rm)
    \/ Finish

Spec == Init /\ [][Next]_vars

----------------------------------------------------------------------------
(* Config on its own: Config(config_file), then set and get *)

InitConfig ==
    /\ NoUnits
    /\ cfg = Obj({})
    /\ cfgLoad = NoLoad
    /\ lastSet = NoSet
    /\ sets = 0
    /\ deps = TRUE
    /\ depsCls = TRUE
    /\ ctorExc = NoExc
    /\ audio_format = "mp3"
    /\ phase = "config"
    /\ model = "none"
    /\ loadCount = 0
    /\ inferCount = 0
    /\ fs = [p \in Paths |-> "absent"]
    /\ urlText = <<>>
    /\ buttonState = "none"
    /\ entryState = "none"
    /\ statusText = <<>>
    /\ resultText = NoReport
    /\ dialogs = 0
    /\ lastDialog = <<>>
    /\ stack = <<>>
    /\ clicks = 0
    /\ lastAcq = NoAcq
    /\ lastCls = NoCls
    /\ lastRun = NoRun

\* Config.__init__: self._config = {}, then _load_config()
ConfigConstruct(yaml, file) ==
    /\ phase = "config"
    /\ ~cfgLoad.done
    /\ LET r == LoadConfig(yaml, file)
       IN  /\ cfg' = r.config
           /\ cfgLoad' = [done |-> TRUE, yaml |-> yaml, file |-> file, exc |-> r.exc]
    /\ UNCHANGED <<lastSet, sets, guiVars, unitVars>>

\* config.set(key, value) on the constructed Config
ConfigSetCall(key, value) ==
    /\ phase = "config"
    /\ cfgLoad.done
    /\ cfgLoad.exc = NoExc
    /\ sets < MaxSets
    /\ cfg' = ConfigSet(cfg, key, value)
    /\ lastSet' = [done |-> TRUE, key |-> key, value |-> value, before |-> cfg]
    /\ sets' = sets + 1
    /\ UNCHANGED <<cfgLoad, guiVars, unitVars>>

NextConfig ==
    \/ \E yaml \in BOOLEAN, file \in Files : ConfigConstruct(yaml, file)
    \/ \E key \in PathStrings, value \in SetValues : ConfigSetCall(key, value)

SpecConfig == InitConfig /\ [][NextConfig]_vars

----------------------------------------------------------------------------
(* AccentClassifier on its own: classify_accent called on an instance *)

\* an AccentClassifier instance (its module imported its dependencies) whose
\* model attribute is a loaded model or None, and any temp directory
InitCls ==
    /\ NoUnits
    /\ ConfigLoaded
    /\ deps = TRUE
    /\ depsCls = TRUE
    /\ ctorExc = NoExc
    /\ phase = "unit"
    /\ model \in {"none", "loaded"}
    /\ loadCount = (IF model = "loaded" THEN 1 ELSE 0)
    /\ inferCount = 0
    /\ fs \in [Paths -> Contents]
    /\ urlText = <<>>
    /\ buttonState = "none"
    /\ entryState = "none"
    /\ statusText = <<>>
    /\ resultText = NoReport
    /\ dialogs = 0
    /\ lastDialog = <<>>
    /\ stack = <<>>
    /\ clicks = 0
    /\ lastAcq = NoAcq
    /\ lastCls = NoCls
    /\ lastRun = NoRun

\* classifier.classify_accent(path)
ClassifyAccentCall(path, e) ==
    /\ phase = "unit"
    /\ clicks < MaxClicks
    /\ LET c == classify_accent(depsCls, model, fs, path, e)
       IN  /\ inferCount' = inferCount + (IF c.inferred THEN 1 ELSE 0)
           /\ lastCls' = [called |-> TRUE, path |-> path,
                          existed |-> Exists(fs, path), exc |-> c.exc,
                          inferred |-> c.inferred, best |-> c.best,
                          report |-> c.report,
                          probs |-> IF c.exc = NoExc THEN e.probs ELSE <<>>,
                          loaded |-> model = "loaded", depsOk |-> depsCls]
    /\ clicks' = clicks + 1
    /\ UNCHANGED <<unitVars, cfgVars, deps, depsCls, ctorExc, audio_format, phase, model, loadCount,
                   fs, urlText, buttonState, entryState, statusText, resultText,
                   dialogs, lastDialog, stack, lastAcq, lastRun>>

NextCls == \E path \in Paths, e \in ClsEnvs : ClassifyAccentCall(path, e)

SpecCls == InitCls /\ [][NextCls]_vars

----------------------------------------------------------------------------
(* AudioProcessor on its own: cleanup_temp_file called on an instance *)

\* an AudioProcessor instance and any temp directory
InitAp ==
    /\ NoUnits
    /\ ConfigLoaded
    /\ deps = TRUE
    /\ depsCls = TRUE
    /\ ctorExc = NoExc
    /\ phase = "ap"
    /\ model = "none"
    /\ loadCount = 0
    /\ inferCount = 0
    /\ fs \in [Paths -> Contents]
    /\ urlText = <<>>
    /\ buttonState = "none"
    /\ entryState = "none"
    /\ statusText = <<>>
    /\ resultText = NoReport
    /\ dialogs = 0
    /\ lastDialog = <<>>
    /\ stack = <<>>
    /\ clicks = 0
    /\ lastAcq = NoAcq
    /\ lastCls = NoCls
    /\ lastRun = NoRun

\* processor.cleanup_temp_file(path); repeat tells that the call before it
\* was the same call
CleanupTempFileCall(path, rm) ==
    /\ phase = "ap"
    /\ clicks < MaxClicks
    /\ LET r == cleanup_temp_file(fs, path, rm)
       IN  /\ fs' = r.fs
           /\ lastCleanup' = [called |-> TRUE, path |-> path, rm |-> rm,
                              before |-> fs[path], exc |-> r.exc,
                              repeat |-> /\ lastCleanup.called
                                         /\ lastCleanup.path = path
                                         /\ lastCleanup.rm = rm,
                              changed |-> r.fs # fs]
    /\ clicks' = clicks + 1
    /\ UNCHANGED <<procs, cfgVars, deps, depsCls, ctorExc, audio_format, phase, model,
                   loadCount, inferCount, urlText, buttonState, entryState,
                   statusText, resultText, dialogs, lastDialog, stack, lastAcq,
                   lastCls, lastRun>>

NextAp == \E path \in Paths, rm \in {"ok", "oserror", "gone"} : CleanupTempFileCall(path, rm)

SpecAp == InitAp /\ [][NextAp]_vars

----------------------------------------------------------------------------
(* Two instances of the tool: two processes that share the temp directory,
   each running the pipeline of _process_video step by step *)

InitProcs ==
    /\ lastCleanup = NoCleanup
    /\ procs \in [Pids -> {IdleProc(fmt) : fmt \in Formats}]
    /\ ConfigLoaded
    /\ audio_format = "mp3"
    /\ deps = TRUE
    /\ depsCls = TRUE
    /\ ctorExc = NoExc
    /\ phase = "procs"
    /\ model = "loaded"
    /\ loadCount = 1
    /\ inferCount = 0
    /\ fs = [p \in AllPaths |-> "absent"]
    /\ urlText = <<>>
    /\ buttonState = "none"
    /\ entryState = "none"
    /\ statusText = <<>>
    /\ resultText = NoReport
    /\ dialogs = 0
    /\ lastDialog = <<>>
    /\ stack = <<>>
    /\ clicks = 0
    /\ lastAcq = NoAcq
    /\ lastCls = NoCls
    /\ lastRun = NoRun

\* a step of one instance changes nothing but the temp directory and the
\* instance's own position
ProcFrame ==
    UNCHANGED <<lastCleanup, cfgVars, deps, depsCls, ctorExc, audio_format, phase,
                model, loadCount, inferCount, urlText, buttonState, entryState,
                statusText, resultText, dialogs, lastDialog, stack, clicks,
                lastAcq, lastCls, lastRun>>

\* the collaborators' behaviour, for the operators of download_and_convert_to_wav
ProcEnv(raises, produces, decode, export, rm) ==
    [dlRaises |-> raises, dlProduces |-> produces, decode |-> decode,
     export |-> export, rm |-> rm]

\* instance pid: ydl.download([youtube_url])
ProcDownload(pid, raises, produces) ==
    /\ phase = "procs"
    /\ procs[pid].pc = "idle"
    /\ LET pr == procs[pid]
           e  == ProcEnv(raises, produces, "ok", "ok", "ok")
       IN  /\ fs' = Downloaded(pid, fs, pr.fmt, e)
           /\ procs' = [procs EXCEPT ![pid] =
                  [pr EXCEPT !.pc = "downloaded",
                             !.res = IF raises THEN Raise("Exception", <<"yt_dlp">>)
                                     ELSE Return(NoPath),
                             !.wav_path = NoPath,
                             !.touched = @ \cup (IF produces = "none" THEN {}
                                                 ELSE {TempAudioFile(pid, pr.fmt)})]]
    /\ ProcFrame

\* instance pid: the rest of the try body (the checks of the intermediate
\* file, the conversion) and the except clause
ProcConvert(pid, decode, export) ==
    /\ phase = "procs"
    /\ procs[pid].pc = "downloaded"
    /\ LET pr     == procs[pid]
           raised == pr.res.type = "raise"
           b      == TryBody(pid, fs, pr.fmt, <<>>,
                             ProcEnv(raised, "none", decode, export, "ok"))
       IN  /\ fs' = b.fs
           /\ procs' = [procs EXCEPT ![pid] =
                  [pr EXCEPT !.pc = "finally",
                             !.res = ExceptClause(b.res),
                             !.touched = @ \cup (IF raised THEN {}
                                                 ELSE {TempAudioFile(pid, pr.fmt)})
                                           \cup (IF b.exports = 0 THEN {}
                                                 ELSE {TempWav(pid)})]]
    /\ ProcFrame

\* instance pid: the finally clause of download_and_convert_to_wav; the
\* handler goes on to the classifier when a path is returned
ProcFinally(pid, rm) ==
    /\ phase = "procs"
    /\ procs[pid].pc = "finally"
    /\ LET pr  == procs[pid]
           fin == FinallyClause(pid, fs, pr.fmt, pr.res,
                                ProcEnv(FALSE, "none", "ok", "ok", rm))
       IN  /\ fs' = fin.fs
           /\ procs' = [procs EXCEPT ![pid] =
                  [pr EXCEPT !.pc = IF fin.res.type = "return" THEN "classify"
                                    ELSE "idle",
                             !.res = fin.res,
                             !.wav_path = fin.res.value,
                             !.touched = @ \cup {TempAudioFile(pid, pr.fmt)}]]
    /\ ProcFrame

\* instance pid: classify_accent(wav_path)
ProcClassify(pid, e) ==
    /\ phase = "procs"
    /\ procs[pid].pc = "classify"
    /\ LET pr == procs[pid]
           c  == classify_accent(depsCls, model, fs, pr.wav_path, e)
       IN  procs' = [procs EXCEPT ![pid] =
               [pr EXCEPT !.pc = "cleanup",
                          !.res = IF c.exc = NoExc THEN pr.res
                                  ELSE [type |-> "raise", value |-> NoPath,
                                        exc |-> c.exc],
                          !.touched = @ \cup {pr.wav_path}]]
    /\ UNCHANGED fs
    /\ ProcFrame

\* instance pid: cleanup_temp_file(wav_path), and the handler returns
ProcCleanup(pid, rm) ==
    /\ phase = "procs"
    /\ procs[pid].pc = "cleanup"
    /\ LET pr == procs[pid]
           cl == cleanup_temp_file(fs, pr.wav_path, rm)
       IN  /\ fs' = cl.fs
           /\ procs' = [procs EXCEPT ![pid] =
                  [pr EXCEPT !.pc = "idle", !.touched = @ \cup {pr.wav_path}]]
    /\ ProcFrame

NextProcs ==
    \/ \E pid \in Pids, raises \in BOOLEAN, produces \in {"none", "empty", "data"} :
           ProcDownload(pid, raises, produces)
    \/ \E pid \in Pids, decode \in {"ok", "raise"},
          export \in {"ok", "raise_nofile", "raise_partial"} :
           ProcConvert(pid, decode, export)
    \/ \E pid \in Pids, rm \in {"ok", "oserror", "gone"} : ProcFinally(pid, rm)
    \/ \E pid \in Pids, e \in ClsEnvs : ProcClassify(pid, e)
    \/ \E pid \in Pids, rm \in {"ok", "oserror", "gone"} : ProcCleanup(pid, rm)

SpecProcs == InitProcs /\ [][NextProcs]_vars

----------------------------------------------------------------------------
(* Properties *)

OwnError(r) == r.type = "raise" /\ IsInstance(r.exc.kind, "AccentClassifierError")

WhitespaceOnly(s) == \A i \in 1..Len(s) : s[i] \in Whitespace

\* C1: while a _process_video run with a non-empty URL is in flight the
\* button and the URL entry are disabled (Processing), and once the handler
\* has finished, however it ended, both are enabled again (Idle).
C1_ProcessingEndsIdle ==
    phase = "running" =>
        /\ stack # <<>> => buttonState = "disabled" /\ entryState = "disabled"
        /\ stack = <<>> => buttonState = "normal" /\ entryState = "normal"

\* a run that ended with a raw exception of the acquisition is back in Idle
C1_Witness ==
    /\ stack = <<>>
    /\ lastRun.done
    /\ lastRun.exc.kind = "OSError"
    /\ buttonState = "normal"
    /\ entryState = "normal"

\* C2 (as claimed): after a finished run, no waveform file the run's export
\* created is left on disk.
C2_NoWaveformLeft ==
    (/\ stack = <<>>
     /\ lastRun.done
     /\ lastAcq.called
     /\ lastAcq.exported \in {"ok", "raise_partial"})
        => fs[TempWav(getpid)] = "absent"

\* C3: at most one _process_video activation is in flight at any time.
C3_OneInFlight == Len(stack) <= 1

\* a second submission is in flight, pumping UI events, alone on the stack
C3_Witness ==
    /\ clicks = MaxClicks
    /\ Len(stack) = 1
    /\ Head(stack).pc = "update"
    /\ lastDialog # ValidationMsg

\* C4: a trigger with an empty or whitespace-only URL shows the validation
\* error and changes nothing else: no acquisition, no classification, the
\* controls, the status text and the results area stay as they were.
C4_EmptyUrlRejected ==
    [][(clicks' = clicks + 1 /\ WhitespaceOnly(urlText')) =>
          /\ dialogs' = dialogs + 1
          /\ lastDialog' = ValidationMsg
          /\ UNCHANGED <<buttonState, entryState, statusText, resultText, stack,
                         fs, inferCount, loadCount, lastAcq, lastCls, lastRun>>]_vars

\* after a successful submission, a whitespace-only URL was rejected
C4_Witness ==
    /\ urlText # <<>>
    /\ WhitespaceOnly(urlText)
    /\ lastDialog = ValidationMsg
    /\ resultText # NoReport
    /\ statusText[1] = "Most probable accent: "
    /\ stack = <<>>
    /\ buttonState = "normal"

\* C5 (as claimed): when the downloader completes and produced no file or a
\* zero-byte file, download_and_convert_to_wav raises DownloadError and
\* exports no waveform.
C5_DownloadFailureKind ==
    (/\ lastAcq.called
     /\ ~lastAcq.dlRaised
     /\ lastAcq.dlProduced \in {"none", "empty"})
        => /\ lastAcq.res.type = "raise"
           /\ lastAcq.res.exc.kind = "DownloadError"
           /\ lastAcq.exported = "skipped"

\* C6 (as claimed): when the downloader completes without producing the
\* intermediate file, download_and_convert_to_wav raises AudioProcessingError.
C6_NoFileRaisesProcessingError ==
    (/\ lastAcq.called
     /\ ~lastAcq.dlRaised
     /\ lastAcq.dlProduced = "none")
        => /\ lastAcq.res.type = "raise"
           /\ lastAcq.res.exc.kind = "AudioProcessingError"

\* C7 (as claimed): every exception that leaves download_and_convert_to_wav
\* is an AccentClassifierError.
C7_OnlyOwnErrors ==
    (lastAcq.called /\ lastAcq.res.type = "raise") => OwnError(lastAcq.res)

\* C8 (as claimed): after download_and_convert_to_wav, however it ended, the
\* intermediate file does not exist.
C8_IntermediateGone ==
    lastAcq.called => lastAcq.interAfter = "absent"

\* C8 (amended): when download_and_convert_to_wav returns a path or raises one
\* of its own errors, the intermediate file does not exist; it can remain only
\* when the call ends with the OSError of the failed os.remove.
C8_IntermediateGoneUnlessRemoveFails ==
    (lastAcq.called /\ (lastAcq.res.type = "return" \/ OwnError(lastAcq.res)))
        => lastAcq.interAfter = "absent"

\* a failed conversion whose downloaded intermediate file was removed
C8_Witness ==
    /\ lastAcq.called
    /\ lastAcq.dlProduced = "data"
    /\ lastAcq.res.exc.kind = "AudioProcessingError"
    /\ lastAcq.removed = "ok"
    /\ lastAcq.interAfter = "absent"

\* C9 (as claimed): when the downloader produced a non-empty file and the
\* conversion succeeded, the downloader was called once with the given URL,
\* the waveform was exported once, and temp_audio_<pid>.wav is returned and
\* exists.
C9_SuccessReturnsExistingWav ==
    (/\ lastAcq.called
     /\ ~lastAcq.dlRaised
     /\ lastAcq.dlProduced = "data"
     /\ lastAcq.decoded = "ok"
     /\ lastAcq.exported = "ok")
        => /\ lastAcq.res = Return(TempWav(getpid))
           /\ lastAcq.wavAfter # "absent"
           /\ lastAcq.dlCalls = <<lastAcq.url>>
           /\ lastAcq.exports = 1

\* C10: classify_accent on a path that does not exist raises
\* ClassificationError without running the model's inference, and the model
\* is loaded exactly once, at construction, whatever classify_accent calls
\* follow.
C10_MissingFileNoInference ==
    /\ (lastCls.called /\ ~lastCls.existed) =>
           /\ lastCls.exc.kind = "ClassificationError"
           /\ ~lastCls.inferred
    /\ loadCount <= 1
    /\ phase = "running" => loadCount = 1 /\ model = "loaded"
    /\ inferCount <= clicks

\* the second submission's classify_accent was given a path that is gone
C10_Witness ==
    /\ clicks = MaxClicks
    /\ lastCls.called
    /\ ~lastCls.existed
    /\ lastCls.exc.kind = "ClassificationError"
    /\ loadCount = 1

\* the message the error dialog carries for a handled exception
DialogFor(exc) ==
    IF IsInstance(exc.kind, "AccentClassifierError") THEN exc.msg
    ELSE <<"An unexpected error occurred: ">> \o exc.msg

\* C11: every exception raised by download_and_convert_to_wav or
\* classify_accent during a submission is handled by the run itself: the
\* run ends, having shown exactly one dialog with the error's message
\* (prefixed as unexpected when it is no AccentClassifierError) and set a
\* failure status, and the UI is back in Idle.
C11_EveryErrorHandled ==
    /\ (stack = <<>> /\ lastAcq.called /\ lastAcq.res.type = "raise") =>
           lastRun.done /\ lastRun.exc = lastAcq.res.exc
    /\ (stack = <<>> /\ lastCls.called /\ lastCls.exc # NoExc) =>
           lastRun.done /\ lastRun.exc = lastCls.exc
    /\ (lastRun.done /\ lastRun.exc # NoExc) =>
           /\ lastRun.dialogs = 1
           /\ lastRun.dialog = DialogFor(lastRun.exc)
           /\ lastRun.status =
                  IF IsInstance(lastRun.exc.kind, "AccentClassifierError")
                  THEN <<"Processing failed">> ELSE <<"Unexpected error">>
           /\ stack = <<>> => buttonState = "normal" /\ entryState = "normal"

\* a run that ended with the raw OSError of the acquisition showed one dialog
C11_Witness ==
    /\ stack = <<>>
    /\ lastRun.done
    /\ lastRun.exc.kind = "OSError"
    /\ lastRun.dialogs = 1
    /\ lastRun.dialog = <<"An unexpected error occurred: ", "remove">>
    /\ statusText = <<"Unexpected error">>

ShowsBest == Len(statusText) = 2 /\ statusText[1] = "Most probable accent: "

\* C12: whenever the status line shows a most probable accent X, the results
\* area shows the report of the same classification, and X's percentage in
\* it is the maximum of the percentages shown; once the run has ended the
\* UI is back in Idle.
C12_BestMatchesReport ==
    ShowsBest =>
        /\ lastCls.called
        /\ lastCls.exc = NoExc
        /\ lastCls.best = statusText[2]
        /\ resultText = lastCls.report
        /\ \E i \in 1..Len(resultText.lines) :
               /\ resultText.lines[i].label = statusText[2]
               /\ \A j \in 1..Len(resultText.lines) :
                      resultText.lines[j].pct <= resultText.lines[i].pct
        /\ stack = <<>> => buttonState = "normal" /\ entryState = "normal"

\* the second submission succeeded after a first one, and its best label is
\* not the first label
C12_Witness ==
    /\ ShowsBest
    /\ statusText[2] = "england"
    /\ clicks = MaxClicks
    /\ stack = <<>>
    /\ lastRun.done
    /\ lastRun.exc = NoExc
    /\ inferCount = MaxClicks

RECURSIVE SumPct(_)
SumPct(lines) ==
    IF lines = <<>> THEN 0 ELSE Head(lines).pct + SumPct(Tail(lines))

\* C17: a report returned by classify_accent is the constant header followed
\* by one line per label of the label set, in the label encoder's order;
\* each percentage is within [0, 100] and they sum to 100 within 0.01 per
\* label.
C17_ReportCoversLabels ==
    (lastCls.called /\ lastCls.exc = NoExc) =>
        /\ lastCls.report.header = "Accent probabilities:"
        /\ Len(lastCls.report.lines) = Len(Labels)
        /\ \A i \in 1..Len(Labels) :
               /\ lastCls.report.lines[i].label = Labels[i]
               /\ lastCls.report.lines[i].pct \in 0..10000
        /\ SumPct(lastCls.report.lines) \in
               (10000 - Len(Labels))..(10000 + Len(Labels))

\* a report whose rounded percentages do not sum to exactly 100
C17_Witness ==
    /\ lastCls.called
    /\ lastCls.exc = NoExc
    /\ SumPct(lastCls.report.lines) = 10001

\* C18: the best label is the label at the lowest index among those whose
\* probability is the maximum.
C18_BestIsFirstMaximum ==
    (lastCls.called /\ lastCls.exc = NoExc) =>
        LET probs  == lastCls.probs
            maxima == {i \in 1..Len(probs) :
                          \A j \in 1..Len(probs) : probs[j] <= probs[i]}
        IN  \E i \in maxima :
                /\ lastCls.best = Labels[i]
                /\ \A j \in maxima : i <= j

\* two labels share the maximum and the earlier one is returned
C18_Witness ==
    /\ lastCls.called
    /\ lastCls.exc = NoExc
    /\ lastCls.probs[2] = lastCls.probs[3]
    /\ lastCls.probs[1] < lastCls.probs[2]
    /\ lastCls.best = Labels[2]

\* C20: when DEPENDENCIES_AVAILABLE is false in audio_processor or in
\* accent_classifier, construction raises DependencyError, no component is
\* usable, and no model load, download or conversion is attempted.
C20_MissingDependencyFailsConstruction ==
    ((~deps \/ ~depsCls) /\ phase # "start") =>
        /\ phase = "failed"
        /\ ctorExc.kind = "DependencyError"
        /\ model = "none"
        /\ loadCount = 0
        /\ clicks = 0
        /\ ~lastAcq.called
        /\ ~lastCls.called

\* AudioProcessor was constructed, AccentClassifier refused to be
C20_Witness ==
    /\ deps
    /\ ~depsCls
    /\ phase = "failed"
    /\ ctorExc.kind = "DependencyError"
    /\ loadCount = 0

\* C19: classify_accent fails with ClassificationError, and with no other
\* kind of error, when the model is not loaded, when the file does not exist,
\* or when the model invocation raises
C19_FailuresAreClassificationErrors ==
    (/\ lastCls.called
     /\ \/ ~lastCls.loaded
        \/ ~lastCls.existed
        \/ lastCls.inferred /\ lastCls.exc # NoExc)
        => lastCls.exc.kind = "ClassificationError"

----------------------------------------------------------------------------
(* Properties of Config, under SpecConfig *)

\* every key of the path leads from a mapping to a member of it
RECURSIVE Resolves(_, _)
Resolves(node, keys) ==
    \/ keys = <<>>
    \/ /\ node.tag = "dict"
       /\ Head(keys) \in DOMAIN node.d
       /\ Resolves(node.d[Head(keys)], Tail(keys))

\* the key sequences that lead to a value that is not a mapping
RECURSIVE LeafPaths(_)
LeafPaths(node) ==
    IF node.tag # "dict" THEN {<<>>}
    ELSE UNION {{<<k>> \o q : q \in LeafPaths(node.d[k])} : k \in DOMAIN node.d}

\* the file mentions the path: it holds a value at it, or a non-mapping at
\* a prefix of it
Mentioned(doc, keys) ==
    \E n \in 0..Len(keys) :
        /\ Resolves(doc, SubSeq(keys, 1, n))
        /\ n = Len(keys) \/ Walk(doc, SubSeq(keys, 1, n)).value.tag # "dict"

\* C13: get(path, default) never raises, for any dot-path, and returns the
\* default when a segment is missing or an intermediate value is not a
\* mapping; get("nonexistent.key", "default") is "default"
C13_GetNeverRaises ==
    (cfgLoad.done /\ cfgLoad.exc = NoExc) =>
        /\ \A key \in PathStrings :
            LET r == ConfigGet(cfg, key, Leaf("default"))
            IN  /\ r.type = "return"
                /\ ~Resolves(Dict(cfg), Split(key)) => r.value = Leaf("default")
        /\ ConfigGet(cfg, <<"nonexistent", ".", "key">>, Leaf("default"))
               = CfgReturn(Leaf("default"))

\* "audio" holds a non-mapping and get("audio.sample_rate", "default")
\* returned the default
C13_Witness ==
    /\ cfgLoad.done
    /\ <<"audio">> \in DOMAIN cfg
    /\ cfg[<<"audio">>].tag = "leaf"
    /\ ConfigGet(cfg, <<"audio", ".", "sample_rate">>, Leaf("default"))
           = CfgReturn(Leaf("default"))

\* C14: after set(p, v), get(p) returns exactly v, whether the path existed,
\* was new, or ran through an intermediate value that was not a mapping
C14_SetThenGet ==
    lastSet.done =>
        ConfigGet(cfg, lastSet.key, Leaf("default")) = CfgReturn(lastSet.value)

\* set("audio.sample_rate", v) was called while "audio" held a non-mapping
C14_Witness ==
    /\ lastSet.done
    /\ lastSet.key = <<"audio", ".", "sample_rate">>
    /\ lastSet.before[<<"audio">>].tag = "leaf"
    /\ cfg[<<"audio">>].tag = "dict"
    /\ cfg[<<"audio">>].d[<<"sample_rate">>] = lastSet.value

\* the Config was constructed from this document and not changed since
LoadedFrom(doc) ==
    /\ cfgLoad.done
    /\ ~lastSet.done
    /\ cfgLoad.yaml
    /\ cfgLoad.file = File("doc", doc)

\* C15: a file that holds a mapping is deep-merged over the defaults: every
\* non-mapping value of the file is the configuration's value at its path,
\* and every default leaf the file does not mention keeps its value
C15_FileMergedOverDefaults ==
    \A doc \in {d \in Docs : d.tag = "dict"} :
        LoadedFrom(doc) =>
            /\ \A q \in LeafPaths(doc) :
                /\ Resolves(Dict(cfg), q)
                /\ Walk(Dict(cfg), q).value = Walk(doc, q).value
            /\ \A q \in LeafPaths(Dict(DefaultConfig)) :
                ~Mentioned(doc, q) =>
                    /\ Resolves(Dict(cfg), q)
                    /\ Walk(Dict(cfg), q).value = Walk(Dict(DefaultConfig), q).value
            /\ doc = TestFileDoc =>
                /\ cfg[<<"audio">>].d[<<"temp_dir">>] = Leaf("/tmp/test")
                /\ cfg[<<"app">>].d[<<"name">>] = Leaf("Test App")
                /\ cfg[<<"audio">>].d[<<"sample_rate">>] = Leaf("16000")
                /\ cfg[<<"model">>].d[<<"path">>]
                       = Leaf("Jzuluaga/accent-id-commonaccent_ecapa")

\* the file of the test was loaded: its leaves and the defaults it leaves
\* alone are both in the configuration
C15_Witness ==
    /\ LoadedFrom(TestFileDoc)
    /\ cfg[<<"audio">>].d[<<"temp_dir">>] = Leaf("/tmp/test")
    /\ cfg[<<"audio">>].d[<<"channels">>] = Leaf("1")

\* the file cannot be read, is not valid YAML, or its top level is not a
\* mapping
LoadFails ==
    \/ cfgLoad.file.state \in {"unreadable", "invalid"}
    \/ /\ cfgLoad.file.state = "doc"
       /\ cfgLoad.file.doc.tag # "dict"

\* C16: when reading, parsing or merging the file fails, construction does
\* not raise and the configuration equals the defaults
C16_FailedLoadGivesDefaults ==
    (cfgLoad.done /\ ~lastSet.done /\ LoadFails) =>
        /\ cfgLoad.exc = NoExc
        /\ cfg = DefaultConfig

\* a file whose top level is a list was loaded with yaml available
C16_Witness ==
    /\ cfgLoad.done
    /\ ~lastSet.done
    /\ cfgLoad.yaml
    /\ cfgLoad.file = File("doc", Leaf("list"))
    /\ cfgLoad.exc = NoExc
    /\ cfg = DefaultConfig

----------------------------------------------------------------------------
(* Properties of a submission, under Spec *)

\* the calls one activation of _process_video has made so far
InOrder(run) ==
    /\ run.acq <= 1
    /\ run.cls <= 1
    /\ run.cls = 1 =>
        /\ run.acq = 1
        /\ lastAcq.called
        /\ lastAcq.res.type = "return"
        /\ lastCls.called
        /\ lastCls.path = lastAcq.res.value
    /\ (lastAcq.called /\ lastAcq.res.type = "raise") =>
        /\ run.cls = 0
        /\ ~lastCls.called

\* C23: within one submission classify_accent is called at most once, only
\* after download_and_convert_to_wav has returned a path in that submission
\* and with exactly that path, and never when the acquisition failed
C23_AcquisitionThenClassifier ==
    /\ \A i \in 1..Len(stack) : InOrder(stack[i])
    /\ lastRun.done => InOrder(lastRun)

\* a finished submission in which the classifier was called with the path
\* the acquisition returned
C23_Witness ==
    /\ lastRun.done
    /\ lastRun.acq = 1
    /\ lastRun.cls = 1
    /\ lastAcq.res.type = "return"
    /\ lastCls.path = lastAcq.res.value

\* C24 (as claimed): for every configured audio_format, when
\* download_and_convert_to_wav returns, the path it returns is that of a
\* file that exists
C24_ReturnedWavExists ==
    (lastAcq.called /\ lastAcq.res.type = "return") =>
        /\ lastAcq.res.value # NoPath
        /\ lastAcq.wavAfter # "absent"

\* C25 (as claimed): an invocation in which the downloader produces no
\* intermediate file fails: it returns no waveform
C25_NoDownloadAlwaysFails ==
    (lastAcq.called /\ lastAcq.dlProduced = "none") => lastAcq.res.type = "raise"

\* C26: a submission that failed has left the text of the results area as
\* it was when the submission started (the report of an earlier successful
\* submission, or nothing)
C26_FailureKeepsResults ==
    /\ \A i \in 1..Len(stack) :
        stack[i].exc # NoExc => resultText = stack[i].result0
    /\ (lastRun.done /\ lastRun.exc # NoExc) => resultText = lastRun.result0
    /\ \/ resultText = NoReport
       \/ \E probs \in ProbVectors : resultText = Report(probs)

\* a failed submission after a successful one: the earlier report is still
\* shown
C26_Witness ==
    /\ stack = <<>>
    /\ lastRun.done
    /\ lastRun.exc # NoExc
    /\ lastRun.dialogs = 1
    /\ resultText # NoReport
    /\ resultText = lastRun.result0

----------------------------------------------------------------------------
(* Properties of cleanup_temp_file, under SpecAp *)

\* C21: cleanup_temp_file never raises; a file that exists and can be
\* removed is gone afterwards; when the file is already gone, is removed by
\* someone else after the check, or the delete fails, the call returns
\* normally; and a second call changes nothing that the first left
C21_CleanupNeverRaises ==
    lastCleanup.called =>
        /\ lastCleanup.exc = NoExc
        /\ (lastCleanup.before # "absent" /\ lastCleanup.rm = "ok")
               => fs[lastCleanup.path] = "absent"
        /\ lastCleanup.repeat => ~lastCleanup.changed
        /\ cleanup_temp_file(fs, lastCleanup.path, lastCleanup.rm)
               = [fs |-> fs, exc |-> NoExc]

\* the same call twice, on a file whose delete fails both times
C21_Witness ==
    /\ lastCleanup.called
    /\ lastCleanup.repeat
    /\ lastCleanup.before # "absent"
    /\ lastCleanup.rm = "oserror"
    /\ lastCleanup.exc = NoExc

----------------------------------------------------------------------------
(* Properties of two instances, under SpecProcs *)

\* C22: two instances running as different processes with the same temp
\* directory use disjoint temporary file names: under every interleaving of
\* their pipelines no file name is created, read, overwritten or deleted by
\* both, and a file exists only under the name of an instance that made it
C22_DisjointTempNames ==
    /\ \A p \in Pids, q \in Pids :
        p # q => {PathName(x) : x \in procs[p].touched}
                    \cap {PathName(y) : y \in procs[q].touched} = {}
    /\ \A x \in DOMAIN fs :
        fs[x] # "absent" => x \in procs[x.pid].touched

\* both pipelines are under way at once: one instance is about to classify
\* its waveform while the other, whose intermediate format is also wav, is
\* about to delete its intermediate file
C22_Witness ==
    /\ phase = "procs"
    /\ procs[getpid].pc = "classify"
    /\ procs[otherpid].pc = "finally"
    /\ procs[otherpid].fmt = "wav"
    /\ fs[TempWav(getpid)] = "data"
    /\ fs[TempAudioFile(otherpid, "wav")] = "data"
    /\ TempWav(getpid) \in procs[getpid].touched
    /\ TempAudioFile(otherpid, "wav") \in procs[otherpid].touched

====
